---- MODULE Spec2Model ----
(***************************************************************************)
(* Model of the FuguMT translation server's dispatch engine               *)
(* (FuguMTTranslator/websocket_server.py): the asyncio connection         *)
(* handlers, the shared request_queue, the response_queues slot map and   *)
(* the pool of worker threads.                                            *)
(*                                                                         *)
(* Threads.  All coroutines (the connection handlers) run on ONE event    *)
(* loop thread.  _handle_translation_request waits for its reply with the *)
(* blocking call queue.Queue.get(timeout=...), so while a handler waits   *)
(* the whole event loop thread is blocked; another coroutine can only run *)
(* while a handler is suspended in `await websocket.send(...)`.  The      *)
(* workers are OS threads and interleave freely with the event loop.      *)
(*                                                                         *)
(* Three next-state relations share the variables.  Next is the dispatch  *)
(* engine alone.  ShutdownNext adds main.py: the signal handler, which    *)
(* runs on the main thread between any two of its steps, the shutdown     *)
(* callback, stop_server with its joins and FuguMTServer.stop.            *)
(* RouterNext adds the frames that _process_message rejects and the error *)
(* reply of _client_loop.  RegistryNext adds connections that are opened  *)
(* and closed apart from the frames they carry.                           *)
(***************************************************************************)
EXTENDS Integers, Sequences, FiniteSets, TLC

\* ------------------------------------------------------------------ bounds
MaxJobs == 2
NumWorkers == 2
\* jobs accepted in the behaviours of the shutdown specification
ShutdownJobs == 1
\* jobs accepted, and messages rejected, in the behaviours of the message
\* routing specification
RouterJobs == 1
MaxRejects == 2
\* connections opened, jobs accepted and messages rejected in the
\* behaviours of the connection registry specification
MaxConnects == 3
RegistryJobs == 1
RegistryRejects == 1
\* jobs accepted, messages rejected and ping, stats and health frames
\* answered in the behaviours of the message specification
MessageJobs == 1
MessageRejects == 1
MaxControls == 1
\* threads calling translator.translate, and calls made, in the behaviours
\* of the translator specification
NumCallers == 2
MaxCalls == 3

Jobs == 1..MaxJobs
Workers == 1..NumWorkers
Conns == {"c1", "c2"}
Rids == {"r1", "r2"}
Priorities == {"normal", "high"}
\* the 'status' of a dict that translator.translate(...) returns
ReturnStatuses == {"success", "error"}

NoJob == 0
NoSlot == 0
NoResult == [job |-> NoJob, status |-> "none"]
\* config.worker_threads values the model starts from
WorkerCounts == 1..NumWorkers

\* the threads that call translator.translate
Callers == 1..NumCallers
\* texts and language pairs a call is made with, and the pairs whose
\* models _load_models has loaded
Texts == {"", " ", "Hello"}
Pairs == {"en-ja", "fr-de"}
LoadedPairs == {"en-ja"}
NoCall == [text |-> "none", pair |-> "none"]

VARIABLES
    worker_threads,   \* self.config.worker_threads
    running,          \* self.running
    started,          \* start_server has launched the worker threads
    request_queue,    \* self.request_queue : sequence of job numbers
    response_queues,  \* self.response_queues : request_id -> slot (NoSlot = absent)
    total_requests,   \* server_stats['total_requests']
    total_errors,     \* server_stats['total_errors']
    jobs,             \* every request dict built so far (job number = index)
    hpc,              \* position of the handler of each job
    resp,             \* local `response` / timeout_response of each handler
    slotq,            \* contents of the Queue created by each handler
    wpc,              \* position of each worker thread
    wreq,             \* local `request` of each worker
    wres,             \* local `result` of each worker
    wslot,            \* local `response_queue` of each worker
    wtmp,             \* value of total_errors read by `+= 1`
    \* ---- history (observation only, never read by an action's guard)
    reads,            \* successful get() calls on each slot
    replies,          \* replies sent to the caller of each job
    deqlog,           \* jobs in the order they left request_queue
    faults,           \* jobs whose translate call raised
    \* ---- main.py: FuguMTServer, its signal handler and the process
    srv_running,      \* FuguMTServer.running
    signal_count,     \* FuguMTServer.signal_count
    shutdown_event,   \* FuguMTServer.shutdown_event is set
    callback_pending, \* a call_soon_threadsafe(self._shutdown) not yet run
    mpc,              \* position of FuguMTServer.start / start_server
    jidx,             \* index of the worker stop_server is joining
    spc,              \* position of the second signal's handler
    proc,             \* the process: "running", "exit0", "exit1", "ended"
    released,         \* translator.cleanup has been called
    cleanups,         \* callers of translator.cleanup, in order
    connected_clients,\* self.connected_clients
    closing,          \* connections stop_server has called close() on
    \* ---- _client_loop of each connection
    cpc,              \* handle_client of each connection: "closed" (not running),
                      \* "idle", or the error whose reply the except block sends
    client_info,      \* the keys of self.client_info
    total_connections,  \* server_stats['total_connections']
    active_connections, \* server_stats['active_connections']
    closed_requests,  \* sum of the final 'request_count' of the connections
                      \* whose client_info entry has been popped
    models,           \* translator: the keys of self.models (language pairs)
    stats,            \* translator: self.stats
    stats_lock,       \* translator: the caller that holds self.stats_lock, or 0
    tpc,              \* position of each caller of translate
    targ,             \* the arguments of each caller's call
    ttmp,             \* the value a caller has read for its `+= 1`
    thist,            \* calls of translate started and returned, by status
    snapshot,         \* the dict the last get_stats copied
    request_count,    \* client_info[websocket]['request_count'] (0 = no entry)
    creplies,         \* history: error replies sent on each connection
    rejected,         \* history: messages rejected so far
    drop_sends        \* history: sends attempted on a connection after one raised

\* the translator (translator.py) that FuguMTServer creates and owns
tvars == <<models, stats, stats_lock, tpc, targ, ttmp, thist, snapshot>>

\* main.py: the signal handler, the shutdown, and the translator
sigvars == <<srv_running, signal_count, shutdown_event, callback_pending,
             jidx, spc, proc, released, cleanups, closing, tvars>>

cvars == <<cpc, creplies, rejected, drop_sends>>

\* the registry next to connected_clients
rvars == <<client_info, total_connections, active_connections, closed_requests>>

svars == <<sigvars, mpc, connected_clients, rvars, request_count, cvars>>

vars == <<worker_threads, running, started, request_queue, response_queues, total_requests,
          total_errors, jobs, hpc, resp, slotq, wpc, wreq, wres, wslot, wtmp,
          reads, replies, deqlog, faults, svars>>

hvars == <<jobs, hpc, resp, replies, reads, total_requests>>

NumJobs == Len(jobs)

\* The slot of job j is the Queue object its handler created; it is named j.
SlotOf(j) == j

EventLoopFreeMut == TRUE

\* the event loop thread is not blocked in a handler's response_queue.get
EventLoopFree == \A j \in Jobs : hpc[j] # "waiting"

\* Connections and generated request ids carry no meaning of their own
\* (uuid4 values): a new one is always the first unused name.
ConnOrder == <<"c1", "c2">>
RidOrder == <<"r1", "r2">>
UsedConns == {jobs[j].conn : j \in 1..NumJobs} \cup connected_clients
                \cup {c \in Conns : creplies[c] # <<>>}
UsedRids == {jobs[j].rid : j \in 1..NumJobs}
FirstUnused(order, used) ==
    {order[i] : i \in {k \in 1..Len(order) :
                          /\ order[k] \notin used
                          /\ \A m \in 1..(k-1) : order[m] \in used}}

ConnIdleMut(c) == cpc[c] \in {"idle", "closed"}

\* the connection's _client_loop is between two messages: line 133 awaits
\* _process_message, the reply of a job included, before line 131 takes
\* the next frame of the connection
ConnIdle(c) ==
    /\ cpc[c] \in {"idle", "closed"}
    /\ \A j \in 1..NumJobs : jobs[j].conn = c => hpc[j] \in {"done", "raised"}

Init ==
    /\ worker_threads \in WorkerCounts
    /\ running = FALSE
    /\ started = FALSE
    /\ request_queue = <<>>
    /\ response_queues = [r \in Rids |-> NoSlot]
    /\ total_requests = 0
    /\ total_errors = 0
    /\ jobs = <<>>
    /\ hpc = [j \in Jobs |-> "new"]
    /\ resp = [j \in Jobs |-> NoResult]
    /\ slotq = [j \in Jobs |-> <<>>]
    /\ wpc = [w \in Workers |-> "unstarted"]
    /\ wreq = [w \in Workers |-> NoJob]
    /\ wres = [w \in Workers |-> NoResult]
    /\ wslot = [w \in Workers |-> NoSlot]
    /\ wtmp = [w \in Workers |-> 0]
    /\ reads = [j \in Jobs |-> 0]
    /\ replies = [j \in Jobs |-> <<>>]
    /\ deqlog = <<>>
    /\ faults = {}
    /\ srv_running = FALSE
    /\ signal_count = 0
    /\ shutdown_event = FALSE
    /\ callback_pending = FALSE
    /\ mpc = "init"
    /\ jidx = 0
    /\ spc = "none"
    /\ proc = "running"
    /\ released = FALSE
    /\ cleanups = <<>>
    /\ connected_clients = {}
    /\ closing = {}
    /\ cpc = [c \in Conns |-> "closed"]
    /\ client_info = {}
    /\ total_connections = 0
    /\ active_connections = 0
    /\ closed_requests = 0
    /\ models = LoadedPairs
    /\ stats = [total_translations |-> 0, total_tokens |-> 0, error_count |-> 0]
    /\ stats_lock = 0
    /\ tpc = [t \in Callers |-> "idle"]
    /\ targ = [t \in Callers |-> NoCall]
    /\ ttmp = [t \in Callers |-> 0]
    /\ thist = [started |-> 0, success |-> 0, error |-> 0]
    /\ snapshot = [total_translations |-> 0, total_tokens |-> 0, error_count |-> 0]
    /\ request_count = [c \in Conns |-> 0]
    /\ creplies = [c \in Conns |-> <<>>]
    /\ rejected = 0
    /\ drop_sends = [c \in Conns |-> 0]

\* ---------------------------------------------------- threads of control
\* os._exit has not been called and the interpreter has not ended
Alive == proc = "running"

\* The main thread is inside the event loop, neither in stop_server (a
\* blocking call) nor in a signal handler: coroutines can be resumed.
MainFree == Alive /\ spc = "none" /\ mpc = "serving"

\* ------------------------------------------------------------ start / stop
\* main.py line 118: _setup_signal_handlers()
InstallHandlers ==
    /\ Alive
    /\ mpc = "init"
    /\ mpc' = "armed"
    /\ UNCHANGED <<worker_threads, running, started, request_queue, response_queues,
                   total_requests, total_errors, jobs, hpc, resp, slotq, wpc, wreq,
                   wres, wslot, wtmp, reads, replies, deqlog, faults>>
    /\ UNCHANGED <<sigvars, connected_clients, rvars, request_count, cvars>>

\* main.py line 120: self.running = True
SetRunning ==
    /\ Alive
    /\ spc = "none"
    /\ mpc = "armed"
    /\ srv_running' = TRUE
    /\ mpc' = "starting"
    /\ UNCHANGED <<worker_threads, running, started, request_queue, response_queues,
                   total_requests, total_errors, jobs, hpc, resp, slotq, wpc, wreq,
                   wres, wslot, wtmp, reads, replies, deqlog, faults>>
    /\ UNCHANGED <<signal_count, shutdown_event, callback_pending, jidx, spc, proc,
                   released, cleanups, closing, connected_clients, rvars, request_count,
                   cvars, tvars>>

StartedWorkersMut(n) == 1..(n + 1)

\* lines 66-70: for i in range(self.config.worker_threads): Thread(...).start()
StartedWorkers(n) == 1..n

\* start_server: self.running = True, then one thread per worker_threads
StartServer ==
    /\ Alive
    /\ spc = "none"
    /\ mpc = "starting"
    /\ ~started
    /\ mpc' = "serving"
    /\ started' = TRUE
    /\ running' = TRUE
    /\ wpc' = [w \in Workers |-> IF w \in StartedWorkers(worker_threads)
                                   THEN "loop" ELSE "unstarted"]
    /\ UNCHANGED <<sigvars, connected_clients, rvars, request_count, cvars>>
    /\ UNCHANGED <<worker_threads, request_queue, response_queues, total_requests, total_errors,
                   jobs, hpc, resp, slotq, wreq, wres, wslot, wtmp,
                   reads, replies, deqlog, faults>>

\* stop_server: self.running = False (runs on the event loop thread)
StopServer ==
    /\ MainFree
    /\ started
    /\ running
    /\ EventLoopFree
    /\ running' = FALSE
    /\ UNCHANGED svars
    /\ UNCHANGED <<worker_threads, started, request_queue, response_queues,
                   total_requests,
                   total_errors, jobs, hpc, resp, slotq, wpc, wreq, wres,
                   wslot, wtmp, reads, replies, deqlog, faults>>

\* ------------------------------------------------------- handle_client
RegisterClientMut(c) ==
    /\ connected_clients' = connected_clients \cup {c}
    /\ client_info' = client_info \cup {c}
    /\ total_connections' = IF c \in connected_clients
                            THEN total_connections ELSE total_connections + 1
    /\ active_connections' = active_connections
    /\ closed_requests' = closed_requests

\* lines 105-115: the connection is added to connected_clients and to
\* client_info and both connection counters are incremented.  A connection
\* that is already registered is left as it is (its handle_client runs).
RegisterClient(c) ==
    /\ connected_clients' = connected_clients \cup {c}
    /\ client_info' = client_info \cup {c}
    /\ total_connections' = IF c \in connected_clients
                            THEN total_connections ELSE total_connections + 1
    /\ active_connections' = IF c \in connected_clients
                             THEN active_connections ELSE active_connections + 1
    /\ closed_requests' = closed_requests

UnregisterClientMut(c) ==
    /\ connected_clients' = connected_clients \ {c}
    /\ client_info' = client_info
    /\ active_connections' = active_connections - 1
    /\ total_connections' = total_connections
    /\ closed_requests' = closed_requests + request_count[c]

\* the finally block, lines 123-127: discard, pop and the decrement
UnregisterClient(c) ==
    /\ connected_clients' = connected_clients \ {c}
    /\ client_info' = client_info \ {c}
    /\ active_connections' = active_connections - 1
    /\ total_connections' = total_connections
    /\ closed_requests' = closed_requests + request_count[c]

\* ----------------------------------------- _handle_translation_request
\* lines 165-197: request_id, field check, defaults, slot creation, the
\* request dict, request_queue.put and the counters.  The event loop thread
\* runs these lines without suspending.
Accept(c, rid, prio) ==
    /\ MainFree
    /\ started
    /\ EventLoopFree
    /\ ConnIdle(c)
    /\ NumJobs < MaxJobs
    /\ c \in UsedConns \cup FirstUnused(ConnOrder, UsedConns)
    /\ rid \in UsedRids \cup FirstUnused(RidOrder, UsedRids)
    /\ LET j == NumJobs + 1 IN
         /\ jobs' = Append(jobs, [rid |-> rid, conn |-> c, prio |-> prio])
         /\ hpc' = [hpc EXCEPT ![j] = "waiting"]
         /\ response_queues' = [response_queues EXCEPT ![rid] = SlotOf(j)]
         /\ request_queue' = Append(request_queue, j)
    /\ total_requests' = total_requests + 1
    /\ RegisterClient(c)
    /\ cpc' = [cpc EXCEPT ![c] = "idle"]
    /\ request_count' = [request_count EXCEPT ![c] = @ + 1]
    /\ UNCHANGED <<sigvars, mpc, creplies, rejected, drop_sends>>
    /\ UNCHANGED <<worker_threads, running, started, total_errors, resp, slotq, reads, replies>>
    /\ UNCHANGED <<wpc, wreq, wres, wslot, wtmp, deqlog, faults>>

\* line 201: response_queue.get(timeout=...) returns an item
GetResponse(j) ==
    /\ MainFree
    /\ hpc[j] = "waiting"
    /\ slotq[SlotOf(j)] # <<>>
    /\ resp' = [resp EXCEPT ![j] = Head(slotq[SlotOf(j)])]
    /\ slotq' = [slotq EXCEPT ![SlotOf(j)] = Tail(@)]
    /\ reads' = [reads EXCEPT ![SlotOf(j)] = @ + 1]
    /\ hpc' = [hpc EXCEPT ![j] = "sending"]
    /\ UNCHANGED svars
    /\ UNCHANGED <<worker_threads, running, started, request_queue, response_queues,
                   total_requests, total_errors, jobs, replies>>
    /\ UNCHANGED <<wpc, wreq, wres, wslot, wtmp, deqlog, faults>>

WaitExpiresMut(q) == TRUE

WaitExpiresNeverMut(q) == FALSE

\* Queue.get(timeout=...) raises Empty only while the queue holds no item
WaitExpires(q) == q = <<>>

\* lines 201, 206-211: the wait expires with the slot still empty (Empty)
Timeout(j) ==
    /\ MainFree
    /\ hpc[j] = "waiting"
    /\ WaitExpires(slotq[SlotOf(j)])
    /\ resp' = [resp EXCEPT ![j] = [job |-> NoJob, status |-> "timeout"]]
    /\ hpc' = [hpc EXCEPT ![j] = "sending"]
    /\ UNCHANGED svars
    /\ UNCHANGED <<worker_threads, running, started, request_queue, response_queues,
                   total_requests, total_errors, jobs, slotq, reads, replies>>
    /\ UNCHANGED <<wpc, wreq, wres, wslot, wtmp, deqlog, faults>>

PopSlotMut(rq, rid) == rq

\* the finally block, line 216: self.response_queues.pop(request_id, None)
PopSlot(rq, rid) == [rq EXCEPT ![rid] = NoSlot]

\* lines 202 / 207-211: the reply carries the handler's own request_id
Reply(rid, r) == [request_id |-> rid, status |-> r.status, job |-> r.job]

\* lines 204 / 212 and 214-216: the send completes, then the finally block
SendOk(j) ==
    /\ MainFree
    /\ hpc[j] = "sending"
    /\ EventLoopFree
    /\ replies' = [replies EXCEPT ![j] = Append(@, Reply(jobs[j].rid, resp[j]))]
    /\ response_queues' = PopSlot(response_queues, jobs[j].rid)
    /\ hpc' = [hpc EXCEPT ![j] = "done"]
    /\ UNCHANGED svars
    /\ UNCHANGED <<worker_threads, running, started, request_queue, total_requests,
                   total_errors, jobs, resp, slotq, reads>>
    /\ UNCHANGED <<wpc, wreq, wres, wslot, wtmp, deqlog, faults>>

\* lines 204 / 212 and 214-216: the send raises; the finally block still
\* runs.  The exception reaches `except Exception` of _client_loop (line
\* 134), whose send of an error reply on the same connection (line 140)
\* raises in turn and ends handle_client (lines 118-127).
SendFail(j) ==
    /\ MainFree
    /\ hpc[j] = "sending"
    /\ EventLoopFree
    /\ response_queues' = PopSlot(response_queues, jobs[j].rid)
    /\ hpc' = [hpc EXCEPT ![j] = "raised"]
    /\ UnregisterClient(jobs[j].conn)
    /\ cpc' = [cpc EXCEPT ![jobs[j].conn] = "closed"]
    /\ request_count' = [request_count EXCEPT ![jobs[j].conn] = 0]
    /\ drop_sends' = [drop_sends EXCEPT ![jobs[j].conn] = @ + 1]
    /\ UNCHANGED <<sigvars, mpc, creplies, rejected>>
    /\ UNCHANGED <<worker_threads, running, started, request_queue, total_requests,
                   total_errors, jobs, resp, slotq, reads, replies>>
    /\ UNCHANGED <<wpc, wreq, wres, wslot, wtmp, deqlog, faults>>

\* ------------------------------------------------------- _worker_thread
LoopTestMut(w) ==
    /\ Alive
    /\ wpc[w] = "loop"
    /\ wpc' = [wpc EXCEPT ![w] = "get"]
    /\ UNCHANGED svars
    /\ UNCHANGED <<worker_threads, running, started, request_queue, response_queues, slotq>>
    /\ UNCHANGED hvars
    /\ UNCHANGED <<wreq, wres, wslot, wtmp, deqlog, faults, total_errors>>

\* line 259: while self.running
LoopTest(w) ==
    /\ Alive
    /\ wpc[w] = "loop"
    /\ wpc' = [wpc EXCEPT ![w] = IF running THEN "get" ELSE "exited"]
    /\ UNCHANGED svars
    /\ UNCHANGED <<worker_threads, running, started, request_queue, response_queues, slotq>>
    /\ UNCHANGED hvars
    /\ UNCHANGED <<wreq, wres, wslot, wtmp, deqlog, faults, total_errors>>

GetIndexMut(q) ==
    IF \E i \in 1..Len(q) : jobs[q[i]].prio = "high"
    THEN CHOOSE i \in 1..Len(q) :
             /\ jobs[q[i]].prio = "high"
             /\ \A m \in 1..(i - 1) : jobs[q[m]].prio # "high"
    ELSE 1

\* queue.Queue is FIFO: get() hands out the item at the left end
GetIndex(q) == 1

RemoveAtMut(q, i) == q

\* queue.Queue._get: popleft removes the item it hands out
RemoveAt(q, i) == SubSeq(q, 1, i - 1) \o SubSeq(q, i + 1, Len(q))

\* line 262: request_queue.get(timeout=1.0) returns a request
Dequeue(w) ==
    /\ Alive
    /\ wpc[w] = "get"
    /\ request_queue # <<>>
    /\ wreq' = [wreq EXCEPT ![w] = request_queue[GetIndex(request_queue)]]
    /\ request_queue' = RemoveAt(request_queue, GetIndex(request_queue))
    /\ deqlog' = Append(deqlog, request_queue[GetIndex(request_queue)])
    /\ wpc' = [wpc EXCEPT ![w] = "translate"]
    /\ UNCHANGED svars
    /\ UNCHANGED <<worker_threads, running, started, response_queues, slotq>>
    /\ UNCHANGED hvars
    /\ UNCHANGED <<wres, wslot, wtmp, faults, total_errors>>

DequeueEmptyMut(w) ==
    /\ Alive
    /\ wpc[w] = "get"
    /\ request_queue = <<>>
    /\ wpc' = [wpc EXCEPT ![w] = "exited"]
    /\ UNCHANGED svars
    /\ UNCHANGED <<worker_threads, running, started, request_queue, response_queues, slotq>>
    /\ UNCHANGED hvars
    /\ UNCHANGED <<wreq, wres, wslot, wtmp, deqlog, faults, total_errors>>

\* lines 262, 280-281: the one second wait ends with the queue empty
DequeueEmpty(w) ==
    /\ Alive
    /\ wpc[w] = "get"
    /\ request_queue = <<>>
    /\ wpc' = [wpc EXCEPT ![w] = "loop"]
    /\ UNCHANGED svars
    /\ UNCHANGED <<worker_threads, running, started, request_queue, response_queues, slotq>>
    /\ UNCHANGED hvars
    /\ UNCHANGED <<wreq, wres, wslot, wtmp, deqlog, faults, total_errors>>

\* the slot a worker finds for a request id: dict.get, None when absent
LookupSlot(rid) == response_queues[rid]

\* lines 265-273: translator.translate returns a result, then
\* response_queue = self.response_queues.get(request['id'])
TranslateReturn(w, st) ==
    /\ Alive
    /\ wpc[w] = "translate"
    /\ wres' = [wres EXCEPT ![w] = [job |-> wreq[w], status |-> st]]
    /\ wslot' = [wslot EXCEPT ![w] = LookupSlot(jobs[wreq[w]].rid)]
    /\ wpc' = [wpc EXCEPT ![w] = "put"]
    /\ UNCHANGED svars
    /\ UNCHANGED <<worker_threads, running, started, request_queue, response_queues, slotq>>
    /\ UNCHANGED hvars
    /\ UNCHANGED <<wreq, wtmp, deqlog, faults, total_errors>>

SlotPresentMut(slot) == TRUE

\* lines 274 and 289: `if response_queue:` (a Queue object is always true)
SlotPresent(slot) == slot # NoSlot

\* response_queue.put(result) on the Queue object the worker holds
PutResult(sq, slot, res) == [sq EXCEPT ![slot] = Append(@, res)]

PutStepMut(slot) == IF slot = NoSlot THEN "raise" ELSE "put"

\* what the worker does at `if response_queue: response_queue.put(...)`:
\* "skip" the put, "put", or "raise" (None has no attribute put)
PutStep(slot) ==
    IF ~SlotPresent(slot) THEN "skip"
    ELSE IF slot = NoSlot THEN "raise" ELSE "put"

\* lines 274-278: if response_queue: response_queue.put(result); task_done.
\* An exception of the put would enter the handler of line 282.
Put(w) ==
    /\ Alive
    /\ wpc[w] = "put"
    /\ slotq' = IF PutStep(wslot[w]) = "put"
                THEN PutResult(slotq, wslot[w], wres[w]) ELSE slotq
    /\ wpc' = [wpc EXCEPT ![w] = IF PutStep(wslot[w]) = "raise"
                                 THEN "err_store" ELSE "loop"]
    /\ wtmp' = [wtmp EXCEPT ![w] = IF PutStep(wslot[w]) = "raise"
                                   THEN total_errors ELSE @]
    /\ wslot' = [wslot EXCEPT ![w] = NoSlot]
    /\ wres' = [wres EXCEPT ![w] = NoResult]
    /\ wreq' = [wreq EXCEPT ![w] = IF PutStep(wslot[w]) = "raise"
                                   THEN @ ELSE NoJob]
    /\ UNCHANGED svars
    /\ UNCHANGED <<worker_threads, running, started, request_queue, response_queues>>
    /\ UNCHANGED hvars
    /\ UNCHANGED <<deqlog, faults, total_errors>>

\* lines 266-270, 282-284: translator.translate raises; the handler logs and
\* reads server_stats['total_errors'] for `+= 1`
TranslateRaise(w) ==
    /\ Alive
    /\ wpc[w] = "translate"
    /\ faults' = faults \cup {wreq[w]}
    /\ wtmp' = [wtmp EXCEPT ![w] = total_errors]
    /\ wpc' = [wpc EXCEPT ![w] = "err_store"]
    /\ UNCHANGED svars
    /\ UNCHANGED <<worker_threads, running, started, request_queue, response_queues, slotq>>
    /\ UNCHANGED hvars
    /\ UNCHANGED <<wreq, wres, wslot, deqlog, total_errors>>

\* lines 284-294: the write of `+= 1`, then if 'request' in locals():
\* response_queue = self.response_queues.get(request['id']), error_result
ErrStore(w) ==
    /\ Alive
    /\ wpc[w] = "err_store"
    /\ total_errors' = wtmp[w] + 1
    /\ wtmp' = [wtmp EXCEPT ![w] = 0]
    /\ wslot' = [wslot EXCEPT ![w] = LookupSlot(jobs[wreq[w]].rid)]
    /\ wres' = [wres EXCEPT ![w] = [job |-> wreq[w], status |-> "error"]]
    /\ wpc' = [wpc EXCEPT ![w] = "err_put"]
    /\ UNCHANGED svars
    /\ UNCHANGED <<worker_threads, running, started, request_queue, response_queues, slotq>>
    /\ UNCHANGED hvars
    /\ UNCHANGED <<wreq, deqlog, faults>>

\* lines 289-295: if response_queue: response_queue.put(error_result).
\* An exception raised here, inside the except block, would end the thread.
ErrPut(w) ==
    /\ Alive
    /\ wpc[w] = "err_put"
    /\ slotq' = IF PutStep(wslot[w]) = "put"
                THEN PutResult(slotq, wslot[w], wres[w]) ELSE slotq
    /\ wpc' = [wpc EXCEPT ![w] = IF PutStep(wslot[w]) = "raise"
                                 THEN "crashed" ELSE "loop"]
    /\ wslot' = [wslot EXCEPT ![w] = NoSlot]
    /\ wres' = [wres EXCEPT ![w] = NoResult]
    /\ wreq' = [wreq EXCEPT ![w] = NoJob]
    /\ UNCHANGED svars
    /\ UNCHANGED <<worker_threads, running, started, request_queue, response_queues>>
    /\ UNCHANGED hvars
    /\ UNCHANGED <<wtmp, deqlog, faults, total_errors>>

Worker(w) ==
    \/ LoopTest(w)
    \/ Dequeue(w)
    \/ DequeueEmpty(w)
    \/ \E st \in ReturnStatuses : TranslateReturn(w, st)
    \/ TranslateRaise(w)
    \/ Put(w)
    \/ ErrStore(w)
    \/ ErrPut(w)

Handler(j) ==
    \/ GetResponse(j)
    \/ Timeout(j)
    \/ SendOk(j)
    \/ SendFail(j)

Next ==
    \/ InstallHandlers
    \/ SetRunning
    \/ StartServer
    \/ StopServer
    \/ \E c \in Conns, rid \in Rids, prio \in Priorities : Accept(c, rid, prio)
    \/ \E j \in Jobs : Handler(j)
    \/ \E w \in Workers : Worker(w)

Spec == Init /\ [][Next]_vars

\* The operating system schedules every started worker thread again and
\* again, and a call of translate ends.
FairSpec == Spec /\ \A w \in Workers : WF_vars(Worker(w))

TypeOK ==
    /\ running \in BOOLEAN
    /\ worker_threads \in WorkerCounts
    /\ NumJobs <= MaxJobs
    /\ \A r \in Rids : response_queues[r] \in Jobs \cup {NoSlot}
    /\ \A w \in Workers : wreq[w] \in Jobs \cup {NoJob}

\* ------------------------------------------------ requests after the stop
\* The behaviours of Next in which every request is received after
\* stop_server has cleared the running flag.
LateNext ==
    \/ InstallHandlers
    \/ SetRunning
    \/ StartServer
    \/ StopServer
    \/ /\ started /\ ~running
       /\ \E c \in Conns, rid \in Rids, prio \in Priorities : Accept(c, rid, prio)
    \/ \E j \in Jobs : Handler(j)
    \/ \E w \in Workers : Worker(w)

LateSpec == Init /\ [][LateNext]_vars

\* Threads are scheduled again and again, a call of translate ends, and
\* the event loop resumes a handler whose wait or send can end.
FairLateSpec ==
    /\ LateSpec
    /\ \A w \in Workers : WF_vars(Worker(w))
    /\ \A j \in Jobs : WF_vars(Handler(j))

\* ------------------------------------------- main.py: signals and shutdown
\* every variable of the dispatch engine and of the translator except the
\* running flag
qvars == <<worker_threads, started, request_queue, response_queues, total_requests,
           total_errors, jobs, hpc, resp, slotq, wpc, wreq, wres, wslot, wtmp,
           reads, replies, deqlog, faults, connected_clients, rvars, request_count,
           cvars, tvars>>

SignalBranchMut(k) == IF k = 1 THEN "graceful" ELSE "forced"

\* main.py lines 173, 187, 202: if signal_count == 1 / elif == 2 / else
SignalBranch(k) ==
    IF k = 1 THEN "graceful" ELSE IF k = 2 THEN "forced" ELSE "immediate"

\* asyncio.get_running_loop() succeeds in the handler: the main thread is
\* still inside asyncio.run
LoopRunning == mpc # "returned"

\* signal_handler, lines 169-206, up to the first call that takes time:
\* the count, the branch, and for the first signal the whole branch.
Signal ==
    /\ Alive
    /\ mpc # "init"
    /\ signal_count' = signal_count + 1
    /\ LET b == SignalBranch(signal_count + 1) IN
         /\ srv_running' = IF b = "graceful" THEN FALSE ELSE srv_running
         /\ callback_pending' = IF b = "graceful" /\ LoopRunning
                                THEN TRUE ELSE callback_pending
         /\ spc' = IF b = "forced" THEN "cleanup" ELSE spc
         /\ proc' = IF b = "immediate" \/ (b = "graceful" /\ ~LoopRunning)
                    THEN "exit1" ELSE proc
    /\ UNCHANGED <<running, qvars, mpc, shutdown_event, jidx, released, cleanups, closing>>

SigCleanupMut ==
    /\ Alive
    /\ spc = "cleanup"
    /\ spc' = "gc"
    /\ UNCHANGED <<running, qvars, mpc, srv_running, signal_count, shutdown_event,
                   callback_pending, jidx, proc, closing, released, cleanups>>

\* lines 190-192: the second signal's handler calls translator.cleanup()
SigCleanup ==
    /\ Alive
    /\ spc = "cleanup"
    /\ released' = TRUE
    /\ cleanups' = Append(cleanups, "signal")
    /\ spc' = "gc"
    /\ UNCHANGED <<running, qvars, mpc, srv_running, signal_count, shutdown_event,
                   callback_pending, jidx, proc, closing>>

\* lines 193-200: gc.collect(), then finally: os._exit(0)
SigExit ==
    /\ Alive
    /\ spc = "gc"
    /\ proc' = "exit0"
    /\ UNCHANGED <<running, qvars, mpc, srv_running, signal_count, shutdown_event,
                   callback_pending, jidx, spc, released, cleanups, closing>>

\* _shutdown, lines 211-214, run by the event loop as a callback
ShutdownCallback ==
    /\ MainFree
    /\ EventLoopFree
    /\ callback_pending
    /\ shutdown_event' = TRUE
    /\ callback_pending' = FALSE
    /\ UNCHANGED <<running, qvars, mpc, srv_running, signal_count, jidx, spc, proc,
                   released, cleanups, closing>>

\* start_server lines 87-96: shutdown_event.wait() returns, the finally
\* block calls stop_server, lines 302-313: running = False and one
\* create_task(websocket.close()) per registered connection
ServeWakes ==
    /\ MainFree
    /\ EventLoopFree
    /\ shutdown_event
    /\ running' = FALSE
    /\ closing' = closing \cup connected_clients
    /\ mpc' = "join"
    /\ jidx' = 1
    /\ UNCHANGED <<qvars, srv_running, signal_count, shutdown_event, callback_pending,
                   spc, proc, released, cleanups>>

\* the worker thread has ended (threading.Thread.is_alive() is false)
Ended(w) == wpc[w] \in {"exited", "crashed"}

Joining == mpc \in {"join", "join2"} /\ jidx \in 1..worker_threads

\* stop_server lines 317-323: the worker is not alive, or join returns
\* because it ended
JoinReturns ==
    /\ Alive
    /\ spc = "none"
    /\ Joining
    /\ Ended(jidx)
    /\ jidx' = jidx + 1
    /\ UNCHANGED <<running, qvars, mpc, srv_running, signal_count, shutdown_event,
                   callback_pending, spc, proc, released, cleanups, closing>>

JoinTimeoutMut ==
    /\ FALSE
    /\ UNCHANGED vars

\* stop_server lines 319-321: worker.join(timeout=2.0) returns with the
\* worker still alive
JoinTimeout ==
    /\ Alive
    /\ spc = "none"
    /\ Joining
    /\ ~Ended(jidx)
    /\ jidx' = jidx + 1
    /\ UNCHANGED <<running, qvars, mpc, srv_running, signal_count, shutdown_event,
                   callback_pending, spc, proc, released, cleanups, closing>>

\* stop_server and start_server return; main.py line 131: await self.stop()
StopServerReturns ==
    /\ Alive
    /\ spc = "none"
    /\ mpc = "join"
    /\ jidx > worker_threads
    /\ mpc' = "stop"
    /\ jidx' = 0
    /\ UNCHANGED <<running, qvars, srv_running, signal_count, shutdown_event,
                   callback_pending, spc, proc, released, cleanups, closing>>

\* FuguMTServer.stop lines 137-138: if not self.running: return
StopSkipped ==
    /\ Alive
    /\ spc = "none"
    /\ mpc = "stop"
    /\ ~srv_running
    /\ mpc' = "returned"
    /\ UNCHANGED <<running, qvars, srv_running, signal_count, shutdown_event,
                   callback_pending, jidx, spc, proc, released, cleanups, closing>>

\* FuguMTServer.stop lines 141-145: self.running = False and a second
\* call of stop_server (lines 302-313)
StopRuns ==
    /\ Alive
    /\ spc = "none"
    /\ mpc = "stop"
    /\ srv_running
    /\ srv_running' = FALSE
    /\ running' = FALSE
    /\ closing' = closing \cup connected_clients
    /\ mpc' = "join2"
    /\ jidx' = 1
    /\ UNCHANGED <<qvars, signal_count, shutdown_event, callback_pending, spc, proc,
                   released, cleanups>>

\* FuguMTServer.stop lines 148-149: self.translator.cleanup(); start returns
StopCleanup ==
    /\ Alive
    /\ spc = "none"
    /\ mpc = "join2"
    /\ jidx > worker_threads
    /\ released' = TRUE
    /\ cleanups' = Append(cleanups, "stop")
    /\ mpc' = "returned"
    /\ jidx' = 0
    /\ UNCHANGED <<running, qvars, srv_running, signal_count, shutdown_event,
                   callback_pending, spc, proc, closing>>

\* the interpreter ends once the main thread has returned and every
\* (non-daemon, line 68) worker thread has ended
ProcessEnds ==
    /\ Alive
    /\ spc = "none"
    /\ mpc = "returned"
    /\ \A w \in StartedWorkers(worker_threads) : Ended(w)
    /\ proc' = "ended"
    /\ UNCHANGED <<running, qvars, mpc, srv_running, signal_count, shutdown_event,
                   callback_pending, jidx, spc, released, cleanups, closing>>

MainThread ==
    \/ ShutdownCallback
    \/ ServeWakes
    \/ JoinReturns
    \/ JoinTimeout
    \/ StopServerReturns
    \/ StopSkipped
    \/ StopRuns
    \/ StopCleanup
    \/ ProcessEnds

ShutdownNext ==
    \/ InstallHandlers
    \/ SetRunning
    \/ StartServer
    \/ Signal
    \/ SigCleanup
    \/ SigExit
    \/ MainThread
    \/ /\ NumJobs < ShutdownJobs
       /\ \E c \in Conns, rid \in Rids, prio \in Priorities : Accept(c, rid, prio)
    \/ \E j \in Jobs : Handler(j)
    \/ \E w \in Workers : Worker(w)

ShutdownSpec == Init /\ [][ShutdownNext]_vars

\* Threads are scheduled again and again, a call of translate and of
\* cleanup ends, and a blocking wait of a handler ends by its timeout.
\* Signals and requests arrive or not.
FairShutdownSpec ==
    /\ ShutdownSpec
    /\ \A w \in Workers : WF_vars(Worker(w))
    /\ \A j \in Jobs : WF_vars(Handler(j))
    /\ WF_vars(SetRunning) /\ WF_vars(StartServer)
    /\ WF_vars(MainThread)
    /\ WF_vars(SigCleanup) /\ WF_vars(SigExit)

\* ------------------------------------ _client_loop and _process_message
\* A received frame, by what the code looks at: whether json.loads accepts
\* it and returns a dict, the value under 'type', the presence of 'text'.
Parses == {"invalid", "object", "other"}
Types == {"absent", "translation", "ping", "stats", "health", "unknown"}
Messages == {m \in [json : Parses, type : Types, text : BOOLEAN] :
                m.json # "object" => (m.type = "absent" /\ ~m.text)}

RequestTypeMut(m) == m.type

\* line 149: request_type = data.get('type', 'translation')
RequestType(m) == IF m.type = "absent" THEN "translation" ELSE m.type

RouteMut(m) ==
    IF m.json = "invalid" THEN "invalid_json"
    ELSE IF m.json = "other" THEN "not_an_object"
    ELSE IF RequestType(m) \in {"ping", "stats", "health"}
         THEN RequestType(m) ELSE "translation"

\* _process_message, lines 144-161: the handler a frame is dispatched to,
\* or the exception raised instead
Route(m) ==
    IF m.json = "invalid" THEN "invalid_json"
    ELSE IF m.json = "other" THEN "not_an_object"
    ELSE IF RequestType(m) \in {"translation", "ping", "stats", "health"}
         THEN RequestType(m) ELSE "unsupported_type"

\* the exception that ends the processing of m before anything is
\* enqueued: lines 147, 149, 161 and the field check of lines 168-171
Rejection(m) ==
    IF Route(m) \in {"invalid_json", "not_an_object", "unsupported_type"}
    THEN Route(m)
    ELSE IF Route(m) = "translation" /\ ~m.text THEN "missing_text"
    ELSE "none"

\* lines 136-139: error_response = {'error': str(e), 'status': 'error'}
ErrorReply(e) == [status |-> "error", error |-> e]

RejectMut(c, m) ==
    /\ MainFree
    /\ started
    /\ EventLoopFree
    /\ ConnIdle(c)
    /\ rejected < MaxRejects
    /\ c \in UsedConns \cup FirstUnused(ConnOrder, UsedConns)
    /\ Rejection(m) # "none"
    /\ cpc' = [cpc EXCEPT ![c] = Rejection(m)]
    /\ RegisterClient(c)
    /\ rejected' = rejected + 1
    /\ total_requests' = total_requests + 1
    /\ request_count' = [request_count EXCEPT ![c] = @ + 1]
    /\ UNCHANGED <<worker_threads, running, started, request_queue, response_queues,
                   total_errors, jobs, hpc, resp, slotq, wpc, wreq,
                   wres, wslot, wtmp, reads, replies, deqlog, faults>>
    /\ UNCHANGED <<sigvars, mpc, creplies, drop_sends>>

\* lines 131-135 with 144-161 and 165-171: a frame is received on c, its
\* processing raises, and the except block of _client_loop starts to send
\* the error reply
Reject(c, m) ==
    /\ MainFree
    /\ started
    /\ EventLoopFree
    /\ ConnIdle(c)
    /\ rejected < MaxRejects
    /\ c \in UsedConns \cup FirstUnused(ConnOrder, UsedConns)
    /\ Rejection(m) # "none"
    /\ cpc' = [cpc EXCEPT ![c] = Rejection(m)]
    /\ RegisterClient(c)
    /\ rejected' = rejected + 1
    /\ UNCHANGED <<worker_threads, running, started, request_queue, response_queues,
                   total_requests, total_errors, jobs, hpc, resp, slotq, wpc, wreq,
                   wres, wslot, wtmp, reads, replies, deqlog, faults>>
    /\ UNCHANGED <<sigvars, mpc, request_count, creplies, drop_sends>>

ErrSendOkMut(c) ==
    /\ MainFree
    /\ EventLoopFree
    /\ cpc[c] \notin {"idle", "closed"}
    /\ creplies' = [creplies EXCEPT ![c] = Append(@, ErrorReply(cpc[c]))]
    /\ cpc' = [cpc EXCEPT ![c] = "closed"]
    /\ UnregisterClient(c)
    /\ request_count' = [request_count EXCEPT ![c] = 0]
    /\ UNCHANGED <<worker_threads, running, started, request_queue, response_queues,
                   total_requests, total_errors, jobs, hpc, resp, slotq, wpc, wreq,
                   wres, wslot, wtmp, reads, replies, deqlog, faults>>
    /\ UNCHANGED <<sigvars, mpc, rejected, drop_sends>>

\* line 140: the send of the error reply completes; the loop goes on to
\* the next frame
ErrSendOk(c) ==
    /\ MainFree
    /\ EventLoopFree
    /\ cpc[c] \notin {"idle", "closed"}
    /\ creplies' = [creplies EXCEPT ![c] = Append(@, ErrorReply(cpc[c]))]
    /\ cpc' = [cpc EXCEPT ![c] = "idle"]
    /\ UNCHANGED <<worker_threads, running, started, request_queue, response_queues,
                   total_requests, total_errors, jobs, hpc, resp, slotq, wpc, wreq,
                   wres, wslot, wtmp, reads, replies, deqlog, faults>>
    /\ UNCHANGED <<sigvars, mpc, connected_clients, rvars, request_count, rejected,
                   drop_sends>>

\* line 140 raises (the peer is gone): the exception leaves _client_loop
\* and handle_client unregisters the connection, lines 118-127
ErrSendFail(c) ==
    /\ MainFree
    /\ EventLoopFree
    /\ cpc[c] \notin {"idle", "closed"}
    /\ cpc' = [cpc EXCEPT ![c] = "closed"]
    /\ UnregisterClient(c)
    /\ request_count' = [request_count EXCEPT ![c] = 0]
    /\ UNCHANGED <<worker_threads, running, started, request_queue, response_queues,
                   total_requests, total_errors, jobs, hpc, resp, slotq, wpc, wreq,
                   wres, wslot, wtmp, reads, replies, deqlog, faults>>
    /\ UNCHANGED <<sigvars, mpc, creplies, rejected, drop_sends>>

RouterNext ==
    \/ InstallHandlers
    \/ SetRunning
    \/ StartServer
    \/ /\ NumJobs < RouterJobs
       /\ \E c \in Conns, rid \in Rids, prio \in Priorities : Accept(c, rid, prio)
    \/ \E c \in Conns, m \in Messages : Reject(c, m)
    \/ \E c \in Conns : ErrSendOk(c)
    \/ \E c \in Conns : ErrSendFail(c)
    \/ \E j \in Jobs : Handler(j)
    \/ \E w \in Workers : Worker(w)

RouterSpec == Init /\ [][RouterNext]_vars

\* ------------------------------------------ connections opened and closed
\* handle_client lines 98-115: the library calls handle_client for a new
\* connection, which registers it and then waits for the first frame.
\* The lines hold no await: the event loop thread runs them in one piece.
Connect(c) ==
    /\ MainFree
    /\ started
    /\ EventLoopFree
    /\ cpc[c] = "closed"
    /\ total_connections < MaxConnects
    /\ c \in UsedConns \cup FirstUnused(ConnOrder, UsedConns)
    /\ RegisterClient(c)
    /\ cpc' = [cpc EXCEPT ![c] = "idle"]
    /\ request_count' = [request_count EXCEPT ![c] = 0]
    /\ UNCHANGED <<worker_threads, running, started, request_queue, response_queues,
                   total_requests, total_errors, jobs, hpc, resp, slotq, wpc, wreq,
                   wres, wslot, wtmp, reads, replies, deqlog, faults>>
    /\ UNCHANGED <<sigvars, mpc, creplies, rejected, drop_sends>>

\* lines 117-127: the iteration over the frames of c ends (the peer closed
\* the connection) or raises ConnectionClosed or another exception while
\* handle_client waits for a frame; the finally block unregisters c.
Disconnect(c) ==
    /\ MainFree
    /\ EventLoopFree
    /\ cpc[c] = "idle"
    /\ ConnIdle(c)
    /\ UnregisterClient(c)
    /\ cpc' = [cpc EXCEPT ![c] = "closed"]
    /\ request_count' = [request_count EXCEPT ![c] = 0]
    /\ UNCHANGED <<worker_threads, running, started, request_queue, response_queues,
                   total_requests, total_errors, jobs, hpc, resp, slotq, wpc, wreq,
                   wres, wslot, wtmp, reads, replies, deqlog, faults>>
    /\ UNCHANGED <<sigvars, mpc, creplies, rejected, drop_sends>>

\* The behaviours in which connections are opened and closed apart from
\* the frames they carry: a frame arrives on an open connection only.
RegistryNext ==
    \/ InstallHandlers
    \/ SetRunning
    \/ StartServer
    \/ \E c \in Conns : Connect(c)
    \/ \E c \in Conns : Disconnect(c)
    \/ /\ NumJobs < RegistryJobs
       /\ \E c \in connected_clients, rid \in Rids, prio \in Priorities :
              Accept(c, rid, prio)
    \/ /\ rejected < RegistryRejects
       /\ \E c \in connected_clients, m \in Messages : Reject(c, m)
    \/ \E c \in Conns : ErrSendOk(c)
    \/ \E c \in Conns : ErrSendFail(c)
    \/ \E j \in Jobs : Handler(j)
    \/ \E w \in Workers : Worker(w)

RegistrySpec == Init /\ [][RegistryNext]_vars

\* ------------------------------------------- ping, stats and health frames
\* lines 220-226, 238 and 248-251: the reply of a frame that is answered on
\* the event loop thread without a job
ControlReply(t) == [type |-> IF t = "ping" THEN "pong" ELSE t, status |-> "ok"]

\* number of ping, stats and health replies sent so far
ControlsSent(c) ==
    Cardinality({i \in 1..Len(creplies[c]) : creplies[c][i].status = "ok"})

ControlOkMut(c, m) ==
    /\ MainFree
    /\ started
    /\ EventLoopFree
    /\ c \in connected_clients
    /\ cpc[c] = "idle"
    /\ ConnIdle(c)
    /\ Rejection(m) = "none"
    /\ Route(m) \in {"ping", "stats", "health"}
    /\ ControlsSent("c1") + ControlsSent("c2") < MaxControls
    /\ creplies' = [creplies EXCEPT ![c] = Append(@, ControlReply(Route(m)))]
    /\ total_requests' = total_requests + 1
    /\ request_count' = [request_count EXCEPT ![c] = @ + 1]
    /\ UNCHANGED <<worker_threads, running, started, request_queue, response_queues,
                   total_errors, jobs, hpc, resp, slotq, wpc, wreq,
                   wres, wslot, wtmp, reads, replies, deqlog, faults>>
    /\ UNCHANGED <<sigvars, mpc, connected_clients, rvars, cpc,
                   rejected, drop_sends>>

\* lines 131-133 with 149-157 and 218-253: a ping, stats or health frame is
\* received on c and its reply is sent; nothing is enqueued or counted
ControlOk(c, m) ==
    /\ MainFree
    /\ started
    /\ EventLoopFree
    /\ c \in connected_clients
    /\ cpc[c] = "idle"
    /\ ConnIdle(c)
    /\ Rejection(m) = "none"
    /\ Route(m) \in {"ping", "stats", "health"}
    /\ ControlsSent("c1") + ControlsSent("c2") < MaxControls
    /\ creplies' = [creplies EXCEPT ![c] = Append(@, ControlReply(Route(m)))]
    /\ UNCHANGED <<worker_threads, running, started, request_queue, response_queues,
                   total_requests, total_errors, jobs, hpc, resp, slotq, wpc, wreq,
                   wres, wslot, wtmp, reads, replies, deqlog, faults>>
    /\ UNCHANGED <<sigvars, mpc, connected_clients, rvars, request_count, cpc,
                   rejected, drop_sends>>

\* the send of the reply (lines 226, 244, 253) raises: the except block of
\* _client_loop attempts an error reply (line 140), which raises in turn
\* and ends handle_client (lines 118-127)
ControlFail(c, m) ==
    /\ MainFree
    /\ started
    /\ EventLoopFree
    /\ c \in connected_clients
    /\ cpc[c] = "idle"
    /\ ConnIdle(c)
    /\ Rejection(m) = "none"
    /\ Route(m) \in {"ping", "stats", "health"}
    /\ UnregisterClient(c)
    /\ cpc' = [cpc EXCEPT ![c] = "closed"]
    /\ request_count' = [request_count EXCEPT ![c] = 0]
    /\ drop_sends' = [drop_sends EXCEPT ![c] = @ + 1]
    /\ UNCHANGED <<worker_threads, running, started, request_queue, response_queues,
                   total_requests, total_errors, jobs, hpc, resp, slotq, wpc, wreq,
                   wres, wslot, wtmp, reads, replies, deqlog, faults>>
    /\ UNCHANGED <<sigvars, mpc, creplies, rejected>>

\* _process_message, lines 142-161, for the frame m received on the open
\* connection c: the frame is rejected, answered at once, or validated and
\* enqueued by _handle_translation_request
ReceiveTranslation(c, m, rid, prio) ==
    /\ Route(m) = "translation"
    /\ Rejection(m) = "none"
    /\ Accept(c, rid, prio)

Receive(c, m, rid, prio) ==
    \/ Reject(c, m)
    \/ ControlOk(c, m)
    \/ ControlFail(c, m)
    \/ ReceiveTranslation(c, m, rid, prio)

\* The behaviours in which frames of every kind arrive: each step that
\* receives a frame is a step of Receive.  A ping, stats or health frame
\* arrives on a connection that is already registered.
MessageNext ==
    \/ InstallHandlers
    \/ SetRunning
    \/ StartServer
    \/ /\ rejected < MessageRejects
       /\ \E c \in Conns, m \in Messages : Reject(c, m)
    \/ \E c \in Conns, m \in Messages : ControlOk(c, m)
    \/ \E c \in Conns, m \in Messages : ControlFail(c, m)
    \/ /\ NumJobs < MessageJobs
       /\ \E c \in Conns, m \in Messages, rid \in Rids, prio \in Priorities :
              ReceiveTranslation(c, m, rid, prio)
    \/ \E c \in Conns : ErrSendOk(c)
    \/ \E c \in Conns : ErrSendFail(c)
    \/ \E j \in Jobs : Handler(j)
    \/ \E w \in Workers : Worker(w)

MessageSpec == Init /\ [][MessageNext]_vars

\* ------------------------------------------- translator.py: FuguMTTranslator
\* every variable outside the translator
dvars == <<worker_threads, running, started, request_queue, response_queues,
           total_requests, total_errors, jobs, hpc, resp, slotq, wpc, wreq, wres,
           wslot, wtmp, reads, replies, deqlog, faults, srv_running, signal_count,
           shutdown_event, callback_pending, jidx, spc, proc, released, cleanups,
           closing, mpc, connected_clients, rvars, request_count, cvars>>

\* str.strip() of the texts of the model
Strip(text) == IF text = " " THEN "" ELSE text

\* line 246: len(inputs['input_ids'][0]), the number of tokens of the text;
\* the one translatable text of the model is taken to have two
Tokens(text) == IF Strip(text) = "" THEN 0 ELSE 2

OnExceptionMut == "raised"

\* line 258: `except Exception` takes every exception raised inside the try
\* block of translate
OnException == "except"

CanAcquireMut == TRUE

\* `with self.stats_lock:` is entered only while no thread holds the lock
CanAcquire == stats_lock = 0

\* a thread calls translate(text, source_lang, target_lang); line 192
Call(t, text, pair) ==
    /\ tpc[t] = "idle"
    /\ thist.started < MaxCalls
    /\ targ' = [targ EXCEPT ![t] = [text |-> text, pair |-> pair]]
    /\ tpc' = [tpc EXCEPT ![t] = "check"]
    /\ thist' = [thist EXCEPT !.started = @ + 1]
    /\ UNCHANGED <<models, stats, stats_lock, ttmp, snapshot>>
    /\ UNCHANGED dvars

\* lines 194-209: the language pair is looked up in self.models and the
\* text is stripped; either check raises ValueError
Check(t) ==
    /\ tpc[t] = "check"
    /\ tpc' = [tpc EXCEPT ![t] =
                  IF targ[t].pair \notin models THEN OnException
                  ELSE IF Strip(targ[t].text) = "" THEN OnException
                  ELSE "generate"]
    /\ UNCHANGED <<models, stats, stats_lock, targ, ttmp, thist, snapshot>>
    /\ UNCHANGED dvars

\* lines 211-241: tokenizer, model.generate and decode return
GenerateOk(t) ==
    /\ tpc[t] = "generate"
    /\ tpc' = [tpc EXCEPT ![t] = "ok_lock"]
    /\ UNCHANGED <<models, stats, stats_lock, targ, ttmp, thist, snapshot>>
    /\ UNCHANGED dvars

\* lines 211-241: the tokenizer or the model raises (a device error, a
\* model that cleanup has moved or released, ...)
GenerateRaise(t) ==
    /\ tpc[t] = "generate"
    /\ tpc' = [tpc EXCEPT ![t] = OnException]
    /\ UNCHANGED <<models, stats, stats_lock, targ, ttmp, thist, snapshot>>
    /\ UNCHANGED dvars

\* lines 244-245: the lock is taken and stats['total_translations'] is read
OkEnter(t) ==
    /\ tpc[t] = "ok_lock"
    /\ CanAcquire
    /\ stats_lock' = t
    /\ ttmp' = [ttmp EXCEPT ![t] = stats.total_translations]
    /\ tpc' = [tpc EXCEPT ![t] = "ok_count"]
    /\ UNCHANGED <<models, stats, targ, thist, snapshot>>
    /\ UNCHANGED dvars

\* line 245: the write of `+= 1`
OkCount(t) ==
    /\ tpc[t] = "ok_count"
    /\ stats' = [stats EXCEPT !.total_translations = ttmp[t] + 1]
    /\ tpc' = [tpc EXCEPT ![t] = "ok_tokens"]
    /\ UNCHANGED <<models, stats_lock, targ, ttmp, thist, snapshot>>
    /\ UNCHANGED dvars

\* lines 246-247: total_tokens (and total_time) are added to and the lock
\* is released
OkTokens(t) ==
    /\ tpc[t] = "ok_tokens"
    /\ stats' = [stats EXCEPT !.total_tokens = @ + Tokens(targ[t].text)]
    /\ stats_lock' = 0
    /\ tpc' = [tpc EXCEPT ![t] = "ok_return"]
    /\ UNCHANGED <<models, targ, ttmp, thist, snapshot>>
    /\ UNCHANGED dvars

\* lines 249-256: return {..., 'status': 'success'}
ReturnOk(t) ==
    /\ tpc[t] = "ok_return"
    /\ thist' = [thist EXCEPT !.success = @ + 1]
    /\ targ' = [targ EXCEPT ![t] = NoCall]
    /\ tpc' = [tpc EXCEPT ![t] = "idle"]
    /\ UNCHANGED <<models, stats, stats_lock, ttmp, snapshot>>
    /\ UNCHANGED dvars

\* lines 258-263: the except block takes the lock and reads
\* stats['error_count']
ErrEnter(t) ==
    /\ tpc[t] = "except"
    /\ CanAcquire
    /\ stats_lock' = t
    /\ ttmp' = [ttmp EXCEPT ![t] = stats.error_count]
    /\ tpc' = [tpc EXCEPT ![t] = "err_count"]
    /\ UNCHANGED <<models, stats, targ, thist, snapshot>>
    /\ UNCHANGED dvars

\* line 263: the write of `+= 1`; the lock is released
ErrCount(t) ==
    /\ tpc[t] = "err_count"
    /\ stats' = [stats EXCEPT !.error_count = ttmp[t] + 1]
    /\ stats_lock' = 0
    /\ tpc' = [tpc EXCEPT ![t] = "err_return"]
    /\ UNCHANGED <<models, targ, ttmp, thist, snapshot>>
    /\ UNCHANGED dvars

\* lines 265-272: return {'error': str(e), ..., 'status': 'error'}
ReturnErr(t) ==
    /\ tpc[t] = "err_return"
    /\ thist' = [thist EXCEPT !.error = @ + 1]
    /\ targ' = [targ EXCEPT ![t] = NoCall]
    /\ tpc' = [tpc EXCEPT ![t] = "idle"]
    /\ UNCHANGED <<models, stats, stats_lock, ttmp, snapshot>>
    /\ UNCHANGED dvars

\* get_stats, lines 276-277: with self.stats_lock: stats = self.stats.copy()
GetStats ==
    /\ CanAcquire
    /\ snapshot' = stats
    /\ UNCHANGED <<models, stats, stats_lock, tpc, targ, ttmp, thist>>
    /\ UNCHANGED dvars

\* cleanup, lines 66-67: self.models.clear(); self.tokenizers.clear()
Cleanup ==
    /\ models # {}
    /\ models' = {}
    /\ UNCHANGED <<stats, stats_lock, tpc, targ, ttmp, thist, snapshot>>
    /\ UNCHANGED dvars

Translate(t) ==
    \/ Check(t)
    \/ GenerateOk(t)
    \/ GenerateRaise(t)
    \/ OkEnter(t)
    \/ OkCount(t)
    \/ OkTokens(t)
    \/ ReturnOk(t)
    \/ ErrEnter(t)
    \/ ErrCount(t)
    \/ ReturnErr(t)

\* The translator under calls of translate from several threads, calls of
\* get_stats, and a cleanup.
TranslatorNext ==
    \/ \E t \in Callers, text \in Texts, pair \in Pairs : Call(t, text, pair)
    \/ \E t \in Callers : Translate(t)
    \/ GetStats
    \/ Cleanup

TranslatorSpec == Init /\ [][TranslatorNext]_vars

\* ------------------------------------------------------------ vocabulary
Accepted == 1..NumJobs
TimedOut(j) == resp[j].status = "timeout"
Finished(j) == hpc[j] \in {"done", "raised"}
InFlight(j) == hpc[j] \in {"waiting", "sending"}
\* number of results ever put into the slot of job j
Puts(j) == Len(slotq[j]) + reads[j]
MappedRids == {r \in Rids : response_queues[r] # NoSlot}
Dequeued(j) == \E i \in 1..Len(deqlog) : deqlog[i] = j
Queued(j) == \E i \in 1..Len(request_queue) : request_queue[i] = j

\* ------------------------------------------------------------------- C1
C1_OneReply ==
    \A j \in Accepted :
        /\ Len(replies[j]) <= 1
        /\ hpc[j] = "done" =>
              /\ Len(replies[j]) = 1
              /\ replies[j][1].status \in {"success", "error", "timeout"}
        /\ reads[j] <= 1

C1_ReadWhenFulfilled ==
    \A j \in Accepted :
        (hpc[j] = "waiting" /\ slotq[j] # <<>> /\ hpc'[j] # "waiting")
            => (reads'[j] = reads[j] + 1 /\ resp'[j].status # "timeout")

\* C1: every accepted job gets at most one reply, a handler that has returned
\* has sent exactly one (success, error or timeout), no slot is read twice,
\* and a handler whose slot holds a result when its wait ends reads it.
C1_ExactlyOneReply == []C1_OneReply /\ [][C1_ReadWhenFulfilled]_vars

C1_Witness ==
    \E j \in Accepted :
        /\ hpc[j] = "done"
        /\ reads[j] = 1
        /\ replies[j] = <<[request_id |-> jobs[j].rid, status |-> "success",
                           job |-> j]>>

\* ------------------------------------------------------------------- C2
\* C2: the result computed for job A is never placed into the slot of a
\* different job B, nor taken or sent as B's reply.
C2_NoCrossJobResult ==
    \A j \in Accepted :
        /\ \A i \in 1..Len(slotq[j]) : slotq[j][i].job = j
        /\ resp[j].job \in {NoJob, j}
        /\ \A i \in 1..Len(replies[j]) : replies[j][i].job \in {NoJob, j}

\* ------------------------------------------------------------------- C3
C3_AtMostOneResult ==
    \A j \in Accepted : Puts(j) <= 1 /\ reads[j] <= 1

C3_LateFulfilIsNoOp ==
    \A w \in Workers :
        (/\ wpc[w] \in {"put", "err_put"}
         /\ wpc'[w] # wpc[w]
         /\ wslot[w] # NoSlot
         /\ (Puts(wslot[w]) >= 1 \/ TimedOut(wslot[w])))
            => slotq' = slotq

\* C3: every slot receives at most one result and is read at most once, and
\* a fulfil attempt on a slot already fulfilled or already timed out changes
\* nothing.
C3_SlotFulfilledOnce == []C3_AtMostOneResult /\ [][C3_LateFulfilIsNoOp]_vars

\* ------------------------------------------------------------------- C4
C4_NoSlotAfterReturn ==
    \A j \in Accepted :
        Finished(j) => \A r \in Rids : response_queues[r] # SlotOf(j)

C4_ExitRemovesEntry ==
    \A j \in Accepted :
        (~Finished(j) /\ hpc'[j] \in {"done", "raised"})
            => response_queues'[jobs[j].rid] = NoSlot

\* C4: when the handler of a job returns or raises (result received, timeout,
\* or the send raising) response_queues has no entry for the job's
\* request_id, and the job's slot is never mapped again afterwards.
C4_SlotRemovedOnExit == []C4_NoSlotAfterReturn /\ [][C4_ExitRemovesEntry]_vars

C4_Witness ==
    \E j \in Accepted :
        /\ hpc[j] = "raised"
        /\ reads[j] = 1
        /\ response_queues[jobs[j].rid] = NoSlot

TimeoutReply(j) ==
    [request_id |-> jobs[j].rid, status |-> "timeout", job |-> NoJob]

\* C6: a job whose wait expired gets exactly one reply, of status timeout
\* with its request_id, and its handler never reads the slot afterwards (no
\* second reply); a worker is in its error branch only for a job whose
\* translate call raised, and total_errors counts nothing else.
C6_TimeoutThenSilentCompletion ==
    /\ \A j \in Accepted :
          TimedOut(j) =>
              /\ reads[j] = 0
              /\ Len(replies[j]) <= 1
              /\ hpc[j] = "done" => replies[j] = <<TimeoutReply(j)>>
              /\ hpc[j] # "done" => replies[j] = <<>>
    /\ \A w \in Workers :
          wpc[w] \in {"err_store", "err_put", "crashed"} => wreq[w] \in faults
    /\ total_errors <= Cardinality(faults)

C6_Witness ==
    \E j \in Accepted :
        /\ hpc[j] = "done"
        /\ replies[j] = <<TimeoutReply(j)>>
        /\ Dequeued(j)
        /\ j \notin faults
        /\ \A w \in Workers : wreq[w] # j
        /\ \A k \in Accepted : Puts(k) = 0
        /\ total_errors = 0

\* ------------------------------------------------------------------- C7
C7_TimeoutFrame ==
    \A j \in Accepted :
        (hpc[j] = "waiting" /\ TimedOut(j)') => request_queue' = request_queue

C7_LateLookupFindsNothing ==
    \A w \in Workers :
        (/\ wreq[w] # NoJob
         /\ TimedOut(wreq[w])
         /\ wpc[w] \in {"translate", "err_store"}
         /\ wpc'[w] \in {"put", "err_put"})
            => wslot'[w] = NoSlot

C7_LatePutDoesNothing ==
    \A w \in Workers :
        (/\ wreq[w] # NoJob
         /\ TimedOut(wreq[w])
         /\ wpc[w] \in {"put", "err_put"}
         /\ wpc'[w] # wpc[w])
            => slotq' = slotq

\* C7: the timeout of a job's wait leaves request_queue unchanged, and the
\* worker that completes the timed-out job later finds no slot for it and
\* puts nothing anywhere.
C7_TimeoutOnlyRemovesSlot ==
    [][C7_TimeoutFrame /\ C7_LateLookupFindsNothing /\ C7_LatePutDoesNothing]_vars

\* ------------------------------------------------------------------- C8
\* jobs between their dequeue and the end of their translate call
Processing ==
    {j \in Accepted : \E w \in Workers : wpc[w] = "translate" /\ wreq[w] = j}

\* C8: at most worker_threads jobs are between dequeue and completion of
\* translate, whatever the depth of request_queue, and no more than
\* worker_threads threads were started.
C8_AtMostNProcessing ==
    /\ Cardinality(Processing) <= worker_threads
    /\ Cardinality({w \in Workers : wpc[w] # "unstarted"}) <= worker_threads

C8_Witness ==
    /\ worker_threads = 1
    /\ Cardinality(Processing) = 1
    /\ Len(request_queue) >= 1

\* ------------------------------------------------------------------- C9
\* C9: jobs leave request_queue in the order they entered it (job numbers
\* are given in enqueue order): the i-th job dequeued is the i-th job
\* enqueued, whatever the priority tags.
C9_DequeueInEnqueueOrder ==
    \A i \in 1..Len(deqlog) : deqlog[i] = i

C9_Witness ==
    /\ deqlog = <<1, 2>>
    /\ jobs[1].prio = "normal"
    /\ jobs[2].prio = "high"

\* ------------------------------------------------------------------ C10
C10_ConsumedAtMostOnce ==
    /\ \A i, k \in 1..Len(deqlog) : i # k => deqlog[i] # deqlog[k]
    /\ \A i, k \in 1..Len(request_queue) :
          i # k => request_queue[i] # request_queue[k]
    /\ \A j \in Accepted : ~(Queued(j) /\ Dequeued(j))
    /\ \A w1, w2 \in Workers :
          (w1 # w2 /\ wreq[w1] # NoJob) => wreq[w1] # wreq[w2]
    /\ \A w \in Workers : wreq[w] # NoJob => Dequeued(wreq[w])

C10_EventuallyDequeued ==
    \A j \in Jobs : Queued(j) ~> (Dequeued(j) \/ ~running)

\* C10: no job is dequeued, or held for translation, by two workers, and
\* under fair scheduling of the worker threads every enqueued job is
\* eventually dequeued unless the running flag is cleared first.
C10_ConsumedExactlyOnce == []C10_ConsumedAtMostOnce /\ C10_EventuallyDequeued

C10_Witness ==
    \E w1, w2 \in Workers :
        /\ w1 # w2
        /\ wpc[w1] = "translate"
        /\ wpc[w2] = "translate"
        /\ wreq[w1] # wreq[w2]

\* ------------------------------------------------------------------ C11
OthersUntouched(w) ==
    \A v \in Workers \ {w} :
        /\ wpc'[v] = wpc[v]
        /\ wreq'[v] = wreq[v]
        /\ wres'[v] = wres[v]
        /\ wslot'[v] = wslot[v]
        /\ wtmp'[v] = wtmp[v]

C11_FaultSteps ==
    \A w \in Workers :
        /\ (wpc[w] = "translate" /\ wpc'[w] \notin {"translate", "put"}) =>
              /\ wpc'[w] = "err_store"
              /\ wtmp'[w] = total_errors
              /\ OthersUntouched(w)
        /\ (wpc[w] = "err_store" /\ wpc'[w] # "err_store") =>
              /\ wpc'[w] = "err_put"
              /\ total_errors' = wtmp[w] + 1
              /\ wres'[w] = [job |-> wreq[w], status |-> "error"]
              /\ wslot'[w] = response_queues[jobs[wreq[w]].rid]
              /\ OthersUntouched(w)
        /\ (wpc[w] = "err_put" /\ wpc'[w] # "err_put") =>
              /\ wpc'[w] = "loop"
              /\ wslot[w] # NoSlot =>
                    slotq' = [slotq EXCEPT ![wslot[w]] = Append(@, wres[w])]
              /\ wslot[w] = NoSlot => slotq' = slotq
              /\ OthersUntouched(w)

C11_NoWorkerCrash == \A w \in Workers : wpc[w] # "crashed"

C12_WorkerExitsOnlyWhenStopped ==
    /\ \A w \in Workers :
          wpc[w] \in {"exited", "crashed"} => (started /\ ~running)
    /\ \A w \in Workers : wpc[w] # "crashed"

C12_Witness ==
    /\ ~running
    /\ \E w \in Workers : wpc[w] = "exited"
    /\ \E w \in Workers : wpc[w] = "translate"

\* ------------------------------------------------------------------ C13
C13_JoinBounded ==
    (Alive /\ spc = "none" /\ Joining) => ENABLED (JoinReturns \/ JoinTimeout)

C13_Steps ==
    /\ (signal_count = 0 /\ signal_count' = 1) =>
          (~srv_running' /\ callback_pending' /\ proc' = proc)
    /\ (~shutdown_event /\ shutdown_event') => (callback_pending /\ mpc = "serving")
    /\ (mpc = "serving" /\ mpc' # "serving") =>
          (shutdown_event /\ ~running' /\ connected_clients \subseteq closing'
             /\ mpc' = "join")
    /\ \A w \in Workers :
          (~running /\ wpc[w] # "get") => wpc'[w] # "get"

C13_ShutdownComplete ==
    /\ proc = "ended"
    /\ ~running /\ ~srv_running
    /\ shutdown_event
    /\ connected_clients \subseteq closing
    /\ \A w \in StartedWorkers(worker_threads) : wpc[w] = "exited"

\* C13: the first signal clears FuguMTServer.running and schedules the
\* shutdown callback; the callback sets the event, which alone wakes the
\* serve loop into stop_server; stop_server clears the workers' running flag
\* and starts a close for every registered connection; after that no worker
\* begins a new wait for a job, a join never has to wait for its worker to
\* end, and if no further signal arrives the process ends with every worker
\* out of its loop.
C13_GracefulShutdown ==
    /\ []C13_JoinBounded
    /\ [][C13_Steps]_vars
    /\ (signal_count = 1) ~> (signal_count > 1 \/ C13_ShutdownComplete)

C13_Witness ==
    /\ signal_count = 1
    /\ C13_ShutdownComplete
    /\ closing # {}
    /\ deqlog # <<>>

\* ------------------------------------------------------------------ C14
C14_ForcedExit ==
    proc = "exit0" =>
        /\ signal_count = 2
        /\ released
        /\ cleanups # <<>> /\ cleanups[Len(cleanups)] = "signal"

C14_NoWaiting ==
    spc # "none" =>
        /\ mpc' = mpc /\ jidx' = jidx
        /\ \A j \in Jobs : hpc'[j] = hpc[j]

\* C14: a second signal starts the forced branch whatever the graceful
\* shutdown was doing; from then on the main thread neither joins a worker
\* nor resumes a handler, the handler calls translator.cleanup and the
\* process is terminated (exit status 0 only after that cleanup), whatever
\* the workers are doing.
C14_SecondSignalForces ==
    /\ []C14_ForcedExit
    /\ [][C14_NoWaiting]_vars
    /\ (signal_count = 2) ~> (proc \in {"exit0", "exit1"})

C14_Witness ==
    /\ proc = "exit0"
    /\ mpc = "join" /\ jidx = 1
    /\ wpc[1] = "translate"
    /\ request_queue = <<>>

\* ------------------------------------------------------------------ C15
C15_ThirdSignalStep ==
    (signal_count >= 2 /\ signal_count' = signal_count + 1) =>
        /\ proc' = "exit1"
        /\ released' = released
        /\ cleanups' = cleanups
        /\ spc' = spc

\* C15: the third signal (it can only arrive while the second signal's
\* handler is still running) ends the process at once with status 1, and
\* its handling calls no cleanup.
C15_ThirdSignalKills == [][C15_ThirdSignalStep]_vars

C15_Witness ==
    /\ signal_count = 3
    /\ proc = "exit1"
    /\ spc = "cleanup"
    /\ ~released

\* ------------------------------------------------------------------ C16
C16_Step ==
    /\ signal_count' >= signal_count
    /\ (signal_count' = 1 /\ signal_count = 0) => ~srv_running'
    /\ (signal_count' = 2 /\ signal_count = 1) => spc' = "cleanup"
    /\ (signal_count' >= 3 /\ signal_count' # signal_count) => proc' = "exit1"
    /\ signal_count >= 1 => ~srv_running'
    /\ (started /\ ~running) => ~running'

\* C16: the signal count never decreases, the k-th signal takes the branch
\* for k, and a running flag that the shutdown path has cleared (the
\* FuguMTServer flag by the first signal, the WebSocketServer flag by
\* stop_server) is never true again.
C16_ForwardOnly == [][C16_Step]_vars

\* ------------------------------------------------------------------ C17
\* C17: no worker starts a call of translator.translate (the call follows
\* its request_queue.get at once) after translator.cleanup has been called.
C17_NoCallAfterRelease ==
    [][\A w \in Workers :
          released => ~(wpc[w] = "get" /\ wpc'[w] = "translate")]_vars

\* --------------------------------------------------- rejected messages
\* the step in which a frame received on c is rejected with error e
Rejects(c, e) == cpc[c] \in {"idle", "closed"} /\ cpc'[c] = e

\* the step that ends the sending of the error reply for e on c
Replied(c, e) == cpc[c] = e /\ cpc'[c] \in {"idle", "closed"}

\* nothing is enqueued, no slot is created, no request is counted
NothingEnqueued ==
    /\ request_queue' = request_queue
    /\ response_queues' = response_queues
    /\ jobs' = jobs
    /\ slotq' = slotq
    /\ total_requests' = total_requests
    /\ request_count' = request_count

\* the error reply for e went out on c and on no other connection, c is
\* still registered and its loop is ready for the next frame; or the send
\* raised, no reply went out and the dropped connection was unregistered
ErrorReplied(c, e) ==
    \/ /\ creplies' = [creplies EXCEPT ![c] = Append(@, ErrorReply(e))]
       /\ ErrorReply(e).status = "error"
       /\ c \in connected_clients /\ c \in connected_clients'
       /\ ConnIdle(c)'
       /\ NothingEnqueued
    \/ /\ creplies' = creplies
       /\ c \notin connected_clients'
       /\ request_queue' = request_queue /\ response_queues' = response_queues

\* ------------------------------------------------------------------ C18
C18_Step ==
    \A c \in Conns :
        /\ Rejects(c, "invalid_json") => (NothingEnqueued /\ c \in connected_clients')
        /\ Replied(c, "invalid_json") => ErrorReplied(c, "invalid_json")

\* C18: a frame that json.loads refuses is rejected as invalid JSON: nothing
\* is enqueued and no slot is created, the error reply (status 'error') is
\* sent on that connection, and after the send the connection is still
\* registered with its loop ready for the next frame (a send that raises
\* means the peer dropped the connection).
C18_InvalidJsonRejected ==
    /\ [](\A m \in Messages : m.json = "invalid" => Rejection(m) = "invalid_json")
    /\ [][C18_Step]_vars

C18_Witness ==
    \E c \in Conns :
        /\ Len(creplies[c]) = 2
        /\ creplies[c][1] = ErrorReply("invalid_json")
        /\ c \in connected_clients
        /\ jobs = <<>>
        /\ \A r \in Rids : response_queues[r] = NoSlot

\* ------------------------------------------------------------------ C19
C19_Step ==
    \A c \in Conns :
        /\ Rejects(c, "unsupported_type") =>
              (NothingEnqueued /\ c \in connected_clients' /\ hpc' = hpc)
        /\ Replied(c, "unsupported_type") => ErrorReplied(c, "unsupported_type")

\* C19: a JSON object whose type is none of translation, ping, stats and
\* health is routed to no handler but rejected as an unsupported type:
\* nothing is enqueued, the error reply is sent and the connection stays
\* open.
C19_UnknownTypeRejected ==
    /\ [](\A m \in Messages :
            (m.json = "object" /\ m.type = "unknown") =>
                (Route(m) = "unsupported_type" /\ Rejection(m) = "unsupported_type"))
    /\ [][C19_Step]_vars

C19_Witness ==
    \E c \in Conns :
        /\ creplies[c] = <<ErrorReply("unsupported_type")>>
        /\ c \in connected_clients
        /\ cpc[c] = "idle"
        /\ request_queue = <<>>
        /\ total_requests = 0

\* ------------------------------------------------------------------ C20
C20_Step ==
    \A c \in Conns :
        /\ Rejects(c, "missing_text") => (NothingEnqueued /\ c \in connected_clients')
        /\ Replied(c, "missing_text") => ErrorReplied(c, "missing_text")

\* C20: a translation request (type 'translation' or no type) without a
\* text field is rejected before anything is touched: request_queue,
\* response_queues, total_requests and the connection's request_count are
\* unchanged by the rejection and by its error reply, and the connection is
\* left idle and registered, so that the next valid request on it is
\* accepted and answered like any other.
C20_MissingTextRejected ==
    /\ [](\A m \in Messages :
            (m.json = "object" /\ RequestType(m) = "translation" /\ ~m.text) =>
                Rejection(m) = "missing_text")
    /\ [][C20_Step]_vars

C20_Witness ==
    \E c \in Conns, j \in Accepted :
        /\ creplies[c] = <<ErrorReply("missing_text")>>
        /\ jobs[j].conn = c
        /\ hpc[j] = "sending"
        /\ resp[j] = [job |-> j, status |-> "success"]
        /\ request_count[c] = 1
        /\ total_requests = 1

\* ------------------------------------------------------------------ C21
C21_NoReplyOnDropped == \A c \in Conns : drop_sends[c] = 0

C21_DropStep ==
    \A j \in Jobs :
        (hpc[j] = "sending" /\ hpc'[j] = "raised") =>
            /\ connected_clients' = connected_clients \ {jobs[j].conn}
            /\ replies' = replies
            /\ creplies' = creplies
            /\ \A r \in Rids \ {jobs[j].rid} : response_queues'[r] = response_queues[r]
            /\ slotq' = slotq

\* C21: when a send on a connection raises ConnectionClosed the server
\* attempts no further send on that connection, and the step only removes
\* that connection from the registry (and its own slot): the registration,
\* the slots and the replies of the other connections are as before.
C21_DropOnlyUnregisters == []C21_NoReplyOnDropped /\ [][C21_DropStep]_vars

\* ------------------------------------------------------------------ C22
C22_AcceptStep ==
    (~running /\ NumJobs' = NumJobs + 1) =>
        LET j == NumJobs + 1 IN
            /\ response_queues'[jobs'[j].rid] = SlotOf(j)
            /\ slotq'[SlotOf(j)] = <<>>
            /\ request_queue' = Append(request_queue, j)
            /\ total_requests' = total_requests + 1
            /\ hpc'[j] = "waiting"

C22_Replied ==
    \A j \in Accepted :
        hpc[j] = "done" =>
            /\ Len(replies[j]) = 1
            /\ replies[j][1].request_id = jobs[j].rid
            /\ replies[j][1].status \in {"success", "error", "timeout"}

C23_CountersExact ==
    /\ (\A w \in Workers : wpc[w] # "err_store") =>
           total_errors = Cardinality(faults)
    /\ total_requests = NumJobs

\* C24: a connection is in connected_clients and in client_info exactly
\* while its handle_client runs: both hold it from the accept on, and
\* neither holds it once handle_client has ended, whether the connection
\* was closed normally or a send raised.
C24_RegisteredWhileHandled ==
    /\ connected_clients = {c \in Conns : cpc[c] # "closed"}
    /\ client_info = connected_clients

\* three connections were opened; one that a raising send closed is
\* unregistered and another one is open
C24_Witness ==
    /\ total_connections = 3
    /\ \E c \in Conns : cpc[c] = "closed" /\ drop_sends[c] > 0
    /\ \E c \in Conns : cpc[c] = "idle" /\ c \in connected_clients

\* C30: after every sequence of accepts and closes of connections,
\* active_connections is the number of elements of connected_clients and
\* of client_info, is not negative and does not exceed total_connections;
\* total_connections never decreases.
C30_ActiveCount ==
    /\ active_connections = Cardinality(connected_clients)
    /\ active_connections = Cardinality(client_info)
    /\ active_connections >= 0
    /\ active_connections <= total_connections

C30_ConnectionCounters ==
    []C30_ActiveCount /\ [][total_connections' >= total_connections]_vars

\* three connections were accepted, one of them is still open
C30_Witness ==
    /\ total_connections = 3
    /\ active_connections = 1
    /\ Cardinality(connected_clients) = 1

\* C25 as stated: the design does not serialize the replies of one
\* connection, so that a later-sent request of a connection whose earlier
\* request still has its reply outstanding can be accepted (and then be
\* answered first).
C25_Pipelined ==
    \A j \in Accepted :
        (hpc[j] = "sending" /\ EventLoopFree /\ MainFree /\ NumJobs < MaxJobs)
            => ENABLED (\E rid \in Rids, prio \in Priorities :
                            Accept(jobs[j].conn, rid, prio))

\* C25, amended: the replies of one connection are sent in send order.  A
\* later-sent request of a connection is accepted only after the handling
\* of every earlier-sent request of that connection has ended, and the
\* replies of an ended handler never change.
C25_Serialized ==
    \A j1 \in Accepted, j2 \in Accepted :
        (j1 < j2 /\ jobs[j1].conn = jobs[j2].conn) => Finished(j1)

C25_RepliesFinal ==
    \A j \in Accepted : Finished(j) => replies'[j] = replies[j]

C25_InSendOrder == []C25_Serialized /\ [][C25_RepliesFinal]_vars

\* two requests of one connection have both been answered
C25_Witness ==
    /\ NumJobs = 2
    /\ jobs[1].conn = jobs[2].conn
    /\ replies[1] # <<>>
    /\ replies[2] # <<>>

\* C26: waiting on a job's response slot suspends only the connection that
\* owns the job: while the handler of one connection waits for its reply,
\* a request arriving on another connection, which is between two
\* messages, can be accepted and enqueued.
C26_OthersKeepRunning ==
    \A j \in Accepted :
        (hpc[j] = "waiting" /\ MainFree /\ started /\ NumJobs < MaxJobs) =>
            \A c \in (UsedConns \cup FirstUnused(ConnOrder, UsedConns)) \ {jobs[j].conn} :
                ConnIdle(c) => ENABLED (\E rid \in Rids, prio \in Priorities :
                                           Accept(c, rid, prio))

\* C27: every reply to an accepted translation request carries the
\* request_id of that request and a status success, error or timeout, and
\* a reply with status success carries the output that the Processor
\* returned for that request.
C27_ReplyOfOwnRequest ==
    \A j \in Accepted : \A i \in 1..Len(replies[j]) :
        /\ replies[j][i].request_id = jobs[j].rid
        /\ replies[j][i].status \in {"success", "error", "timeout"}
        /\ replies[j][i].status = "success" => replies[j][i].job = j

\* C28: a worker waiting on an empty request_queue does not wait for ever.
\* Its wait ends with the queue still empty and leads back to the test of
\* the running flag, which ends the loop once the flag is false; so under
\* fair scheduling every idle worker leaves its loop after the flag is
\* cleared, whether or not a job arrives.
C28_Recheck ==
    \A w \in Workers :
        /\ (wpc[w] = "get" /\ request_queue = <<>> /\ wpc'[w] # "get")
              => wpc'[w] = "loop"
        /\ (wpc[w] = "loop" /\ ~running /\ wpc'[w] # "loop")
              => wpc'[w] = "exited"

C28_WaitBounded ==
    \A w \in Workers :
        (Alive /\ wpc[w] = "get" /\ request_queue = <<>>) => ENABLED DequeueEmpty(w)

C28_IdleWorkerLeaves ==
    /\ []C28_WaitBounded
    /\ [][C28_Recheck]_vars
    /\ \A w \in Workers :
          (started /\ ~running /\ wpc[w] = "get" /\ request_queue = <<>>)
              ~> (wpc[w] = "exited")

\* the running flag is false and no job ever arrived: one worker is still
\* in its wait on the empty queue, another has left its loop
C28_Witness ==
    /\ started /\ ~running
    /\ NumJobs = 0
    /\ \E w1, w2 \in Workers : wpc[w1] = "get" /\ wpc[w2] = "exited"

\* C29: when FuguMTServer.start has set the server running and has ended
\* with at most one termination signal received, the WebSocket server is
\* stopped and FuguMTServer.stop has invoked translator.cleanup exactly once.
C29_CleanupOnceOnReturn ==
    (mpc = "returned" /\ signal_count <= 1) =>
        /\ ~running
        /\ cleanups = <<"stop">>
        /\ released

\* ------------------------------------------------------------------ C31
RECURSIVE SumOver(_, _)
SumOver(f, S) ==
    IF S = {} THEN 0
    ELSE LET x == CHOOSE y \in S : TRUE IN f[x] + SumOver(f, S \ {x})

\* the jobs ever put on request_queue are those still in it and those
\* taken from it
C31_CounterIsJobCount ==
    /\ total_requests = Len(request_queue) + Len(deqlog)
    /\ total_requests = NumJobs
    /\ total_requests = closed_requests + SumOver(request_count, Conns)

\* a step that receives a rejected frame, sends an error, pong, stats or
\* health reply, or ends a connection on such a send
C31_FrameWithoutJob ==
    \/ rejected' # rejected
    \/ creplies' # creplies
    \/ drop_sends' # drop_sends /\ hpc' = hpc

C31_NothingCounted ==
    C31_FrameWithoutJob =>
        /\ total_requests' = total_requests
        /\ request_queue' = request_queue
        /\ response_queues' = response_queues

\* C31: total_requests always equals the number of jobs ever put on
\* request_queue and the sum of the request_count values of all
\* connections ever registered (the open ones and the closed ones); ping,
\* stats and health frames and rejected frames change neither the counter
\* nor the queue nor the slot map.
C31_TotalRequests == []C31_CounterIsJobCount /\ [][C31_NothingCounted]_vars

\* one job was accepted, one frame rejected and one ping, stats or health
\* frame answered, and the connection of the job has been closed
C31_Witness ==
    /\ total_requests = 1
    /\ rejected = 1
    /\ ControlsSent("c1") + ControlsSent("c2") = 1
    /\ closed_requests = 1

\* ------------------------------------------------------------------ C32
\* the well-formed frames without a type field, and the frame that differs
\* from m by carrying type 'translation'
C32_Untyped == {m \in Messages : m.json = "object" /\ m.type = "absent"}
C32_Typed(m) == [m EXCEPT !.type = "translation"]

C32_RoutedAlike ==
    \A m \in C32_Untyped :
        /\ Route(m) = "translation"
        /\ Rejection(m) # "unsupported_type"
        /\ Rejection(m) = Rejection(C32_Typed(m))

\* a step in which a frame is enqueued as a job or rejected
C32_FrameStep == NumJobs' # NumJobs \/ rejected' # rejected

C32_HandledAlike ==
    C32_FrameStep =>
        \A c \in Conns, m \in C32_Untyped, rid \in Rids, prio \in Priorities :
            /\ Receive(c, m, rid, prio) <=> Receive(c, C32_Typed(m), rid, prio)
            /\ (m.text /\ Receive(c, m, rid, prio)) =>
                  /\ NumJobs' = NumJobs + 1
                  /\ request_queue' = Append(request_queue, NumJobs + 1)
                  /\ response_queues'[rid] = SlotOf(NumJobs + 1)

\* C32: a well-formed frame without a type field is treated as a
\* translation request.  It is routed and validated like the same frame
\* with type 'translation'; every step that enqueues or rejects a frame
\* is a step of the one exactly if it is a step of the other; with a text
\* it is enqueued, and it is never rejected as an unsupported type.
C32_DefaultIsTranslation == []C32_RoutedAlike /\ [][C32_HandledAlike]_vars

\* a job was accepted and answered, and a frame without a type field can
\* be accepted on its connection
C32_Witness ==
    /\ NumJobs = 1
    /\ hpc[1] = "done"
    /\ replies[1][1].status = "success"
    /\ ENABLED (\E rid \in Rids, prio \in Priorities :
                   ReceiveTranslation(jobs[1].conn,
                       [json |-> "object", type |-> "absent", text |-> TRUE],
                       rid, prio))

\* ------------------------------------------------------------------ C33
\* with the running flag false a worker takes a job only from the wait it
\* was already in, and once out of that wait it never waits again: it
\* dequeues at most one further job, and its next test of the flag ends
\* its loop
C33_Step ==
    \A w \in Workers :
        /\ (~running /\ wreq'[w] # wreq[w] /\ wreq'[w] # NoJob) => wpc[w] = "get"
        /\ (~running /\ wpc[w] # "get") => wpc'[w] # "get"
        /\ (~running /\ wpc[w] = "loop" /\ wpc'[w] # "loop") => wpc'[w] = "exited"

\* a job still in request_queue when every worker has left its loop has
\* not been processed and no result was ever put into its slot
C33_LeftoverUntouched ==
    (started /\ \A w \in StartedWorkers(worker_threads) : wpc[w] = "exited") =>
        \A j \in Accepted : Queued(j) =>
            /\ ~Dequeued(j)
            /\ Puts(SlotOf(j)) = 0

CallsAt(P) == Cardinality({t \in Callers : tpc[t] \in P})

C34_CountersConsistent ==
    /\ stats.total_translations =
          thist.success + CallsAt({"ok_tokens", "ok_return"})
    /\ stats.error_count = thist.error + CallsAt({"err_return"})
    /\ (\A t \in Callers : tpc[t] = "idle") =>
          /\ stats.total_translations + stats.error_count
                = thist.success + thist.error
          /\ thist.success + thist.error = thist.started

C34_SnapshotWhole ==
    /\ snapshot.total_tokens = Tokens("Hello") * snapshot.total_translations
    /\ snapshot.total_translations + snapshot.error_count <= thist.started

\* C34: under concurrent calls of translate the translator's counters stay
\* consistent.  Each call increments exactly one of total_translations and
\* error_count, under stats_lock, so that after any interleaving their sum
\* is the number of calls that have returned; and get_stats returns a
\* snapshot in which no increment is half-applied.
C34_TranslatorCounters == C34_CountersConsistent /\ C34_SnapshotWhole

\* one caller holds the lock in the middle of its increment while another
\* waits for it in the except block, after a call has returned and
\* get_stats has copied the counters
C34_Witness ==
    \E t1, t2 \in Callers :
        /\ tpc[t1] = "ok_count" /\ stats_lock = t1
        /\ tpc[t2] = "except"
        /\ thist.success + thist.error = 1
        /\ snapshot.total_translations + snapshot.error_count = 1

\* ------------------------------------------------------------------ C35
\* a call with an unsupported language pair, with an empty or
\* whitespace-only text, or made after cleanup has cleared the models
C35_BadCall(t) ==
    \/ targ[t].pair \notin LoadedPairs
    \/ targ[t].text \in {"", " "}
    \/ models = {}

C35_NoRaise == \A t \in Callers : tpc[t] # "raised"

C35_Step ==
    \A t \in Callers :
        /\ (tpc[t] = "check" /\ C35_BadCall(t) /\ tpc'[t] # "check")
              => tpc'[t] = "except"
        /\ (tpc[t] = "except" /\ tpc'[t] # "except")
              => (tpc'[t] = "err_count" /\ stats' = stats)
        /\ (tpc[t] = "err_count" /\ tpc'[t] # "err_count")
              => /\ tpc'[t] = "err_return"
                 /\ stats'.error_count = stats.error_count + 1
                 /\ stats'.total_translations = stats.total_translations
                 /\ stats'.total_tokens = stats.total_tokens
        /\ (tpc[t] = "err_return" /\ tpc'[t] # "err_return")
              => /\ tpc'[t] = "idle"
                 /\ thist'.error = thist.error + 1
                 /\ thist'.success = thist.success
                 /\ stats' = stats

\* C35: translate never raises to its caller.  A call with an unsupported
\* language pair, with an empty or whitespace-only text, or made after
\* cleanup has cleared the models goes to the except block, which
\* increments error_count by one, leaves total_translations unchanged and
\* returns a result with status 'error'.
C35_ErrorsReturned == []C35_NoRaise /\ [][C35_Step]_vars

\* after cleanup a call with a supported pair and a text is about to
\* return its error result; two calls have failed so far
C35_Witness ==
    \E t \in Callers :
        /\ models = {}
        /\ targ[t] = [text |-> "Hello", pair |-> "en-ja"]
        /\ tpc[t] = "err_return"
        /\ stats.error_count = 2
        /\ stats.total_translations = 0

\* ------------------------------------------------------------------ C36
\* C36: the error result of a worker's fault handler goes into the slot of
\* the job whose processing raised in that loop iteration: the slot the
\* handler has found for its put is the slot of the job the worker holds,
\* not that of any other job.
C36_ErrorToOwnSlot ==
    \A w \in Workers :
        (wpc[w] = "err_put" /\ wslot[w] # NoSlot) =>
            /\ wres[w] = [job |-> wreq[w], status |-> "error"]
            /\ wreq[w] \in faults
            /\ wslot[w] = SlotOf(wreq[w])


====
